---- MODULE Spec2Model ----
(***************************************************************************)
(* Model of the multi-strategy crawl engine of ogscaper                    *)
(* (scraper/content_crawler.py) as driven by ScraperOrchestrator           *)
(* (scraper/orchestrator.py): one ContentCrawler object, on which crawl    *)
(* is awaited once per seed URL.                                           *)
(*                                                                         *)
(* Python str values are TLA+ strings; Len, SubSeq and \o act on them      *)
(* character by character.  Python sets are TLA+ sets, lists are           *)
(* sequences; None is the string "None" where a str or a callable is       *)
(* optional, and the empty sequence or function where a list or a dict is. *)
(***************************************************************************)
EXTENDS Integers, Sequences, FiniteSets, TLC

(***************************************************************************)
(* Bounds of the model.                                                    *)
(***************************************************************************)
\* how many of AllHrefs the documents of the web mention, when the crawler
\* is used for one crawl
MaxHrefs == 3
\* the number of seeds scrape_urls is given, when the crawler is used for
\* several crawls, and how many of AllHrefs the documents mention then
MaxCrawls == 2
SeqHrefs == 2

(***************************************************************************)
(* str operations.                                                         *)
(***************************************************************************)
Char(s, i) == SubSeq(s, i, i)

\* s[i:] (1-based i)
From(s, i) == SubSeq(s, i, Len(s))

\* s.startswith(p, i-1)
StartsWithAt(s, p, i) ==
    /\ i + Len(p) - 1 <= Len(s)
    /\ SubSeq(s, i, i + Len(p) - 1) = p

\* s.find(p, i-1) + 1: the first position of p in s at or after i, 0 when
\* there is none
RECURSIVE FindFrom(_, _, _)
FindFrom(s, p, i) ==
    IF i + Len(p) - 1 > Len(s) THEN 0
    ELSE IF StartsWithAt(s, p, i) THEN i
    ELSE FindFrom(s, p, i + 1)

Find(s, p) == FindFrom(s, p, 1)

\* p in s
Contains(s, p) == Find(s, p) > 0

UpperCase == "ABCDEFGHIJKLMNOPQRSTUVWXYZ"
LowerCase == "abcdefghijklmnopqrstuvwxyz"
Digits == "0123456789"

\* the characters of a string, as a set
Chars(s) == {Char(s, i) : i \in 1..Len(s)}

Letters == Chars(LowerCase \o UpperCase)

\* c.lower() for each upper-case letter c
ToLower == {<<Char(UpperCase, i), Char(LowerCase, i)>> : i \in 1..Len(UpperCase)}

UpperChars == Chars(UpperCase)

LowerChar(c) ==
    IF c \in UpperChars THEN (CHOOSE m \in ToLower : m[1] = c)[2] ELSE c

\* str.lower()
RECURSIVE Lower(_)
Lower(s) == IF s = "" THEN "" ELSE LowerChar(Char(s, 1)) \o Lower(From(s, 2))

\* s.replace(a, b) for a single character a
RECURSIVE Replace(_, _, _)
Replace(s, a, b) ==
    IF s = "" THEN ""
    ELSE (IF Char(s, 1) = a THEN b ELSE Char(s, 1)) \o Replace(From(s, 2), a, b)

\* the elements of a list, as a set
Range(q) == {q[i] : i \in 1..Len(q)}

(***************************************************************************)
(* re.search for the patterns of the program, which all have the shape     *)
(* <literal>[^<c>]+$ : some occurrence of the literal is followed, up to   *)
(* the end of the string, by one or more characters other than c.  ($ also *)
(* matches before a final newline, and [^c] matches a newline, so the      *)
(* condition on the tail is the same.)                                     *)
(***************************************************************************)
re_search(pattern, s) ==
    LET k       == Find(pattern, "[^")
        literal == SubSeq(pattern, 1, k - 1)
        c       == Char(pattern, k + 2)
    IN  \E i \in 1..Len(s) :
            /\ StartsWithAt(s, literal, i)
            /\ i + Len(literal) <= Len(s)
            /\ \A j \in (i + Len(literal))..Len(s) : Char(s, j) # c

(***************************************************************************)
(* urllib.parse for URLs without fragment; a query only as a whole         *)
(* reference ("?page=2").                                                  *)
(***************************************************************************)
SchemeChars == Chars(LowerCase \o UpperCase \o Digits \o "+-.")

\* urlsplit: the position of the ":" ending a scheme, 0 when url has none
SchemeEnd(url) ==
    LET i == Find(url, ":")
    IN  IF /\ i > 1
           /\ Char(url, 1) \in Letters
           /\ \A j \in 1..(i - 1) : Char(url, j) \in SchemeChars
        THEN i ELSE 0

\* _splitnetloc: the netloc of "//netloc/path" ends before the first "/"
NetlocEnd(rest) ==
    LET k == FindFrom(rest, "/", 3)
    IN  IF k = 0 THEN Len(rest) ELSE k - 1

\* urlparse(url), without its check of the brackets
urlparse(url) ==
    LET e    == SchemeEnd(url)
        rest == From(url, e + 1)
        net  == StartsWithAt(rest, "//", 1)
        ne   == NetlocEnd(rest)
    IN  [scheme |-> Lower(SubSeq(url, 1, e - 1)),
         netloc |-> IF net THEN SubSeq(rest, 3, ne) ELSE "",
         path   |-> IF net THEN From(rest, ne + 1) ELSE rest]

netloc(url) == urlparse(url).netloc

\* urlsplit raises ValueError("Invalid IPv6 URL") on an unpaired bracket
urlparse_raises(url) ==
    LET n == netloc(url)
    IN  \/ Contains(n, "[") /\ ~Contains(n, "]")
        \/ Contains(n, "]") /\ ~Contains(n, "[")

\* the schemes of urllib's uses_relative and uses_netloc that occur here
uses_relative == {"http", "https", ""}

\* bpath up to and including its last "/"
RECURSIVE DirOf(_)
DirOf(p) ==
    IF p = "" THEN "/"
    ELSE IF Char(p, Len(p)) = "/" THEN p
    ELSE DirOf(SubSeq(p, 1, Len(p) - 1))

\* urljoin(base, url), for url without dot segments and base without query
urljoin(base, url) ==
    IF base = "" THEN url
    ELSE IF url = "" THEN base
    ELSE IF Char(url, 1) = "?" THEN base \o url
    ELSE LET b      == urlparse(base)
             u      == urlparse(url)
             scheme == IF SchemeEnd(url) > 0 THEN u.scheme ELSE b.scheme
         IN  IF scheme # b.scheme \/ scheme \notin uses_relative THEN url
             ELSE IF u.netloc # "" THEN scheme \o "://" \o u.netloc \o u.path
             ELSE IF u.path = "" THEN base
             ELSE IF Char(u.path, 1) = "/" THEN scheme \o "://" \o b.netloc \o u.path
             ELSE scheme \o "://" \o b.netloc \o DirOf(b.path) \o u.path

(***************************************************************************)
(* ContentType and SiteConfig.                                             *)
(*                                                                         *)
(* A ContentType member is written "ContentType.<NAME>": an Enum member    *)
(* is equal to no str.  A SiteConfig is a record of the fields the crawl   *)
(* logic reads; the CSS selector lists and the sleep times are left out    *)
(* (which anchors a selector matches is an input of the strategy).  The    *)
(* code only tests the optional fields for truth, so None is the empty     *)
(* list, or the empty dict.                                                *)
(***************************************************************************)
ContentType ==
    {"ContentType.BLOG", "ContentType.GUIDE", "ContentType.TOPIC",
     "ContentType.SUBSTACK", "ContentType.CATEGORY", "ContentType.UNKNOWN"}

BrowserHeaders ==
    ("Accept" :> "text/html,application/xhtml+xml,application/xml;q=0.9,image/webp,*/*;q=0.8")
    @@ ("Accept-Language" :> "en-US,en;q=0.5")
    @@ ("Connection" :> "keep-alive")

\* SiteConfig(domain, ..., content_patterns) with the dataclass defaults
SiteConfig(dom, pagination, patterns) ==
    [domain              |-> dom,
     pagination_selectors |-> pagination,
     content_patterns    |-> patterns,
     requires_js         |-> FALSE,
     infinite_scroll     |-> FALSE,
     api_endpoints       |-> <<>>,
     use_playwright      |-> FALSE,
     use_cloudscraper    |-> FALSE,
     use_undetected      |-> FALSE,
     max_scroll_attempts |-> 10,
     custom_headers      |-> <<>>,
     feed_urls           |-> <<>>]

BlogFeeds ==
    <<"/feed", "/feed.xml", "/rss", "/rss.xml", "/atom.xml", "/feed/atom",
      "/feed/rss", "/blog/feed", "/blog/feed.xml", "/blog/rss", "/blog/rss.xml">>

ArchiveFeeds ==
    <<"/feed", "/feed.xml", "/rss", "/rss.xml", "/atom.xml", "/feed/atom",
      "/feed/rss", "/archive/feed", "/archive/feed.xml", "/archive/rss",
      "/archive/rss.xml">>

QuillConfig ==
    [SiteConfig("quill.co", <<".pagination a", ".next-page", "a[rel=\"next\"]">>,
                <<"/blog/[^/]+$">>)
     EXCEPT !.requires_js = TRUE, !.infinite_scroll = TRUE, !.use_playwright = TRUE,
            !.max_scroll_attempts = 15, !.feed_urls = BlogFeeds,
            !.custom_headers = BrowserHeaders]

SubstackConfig ==
    [SiteConfig("substack.com", <<".pagination a", ".next-page">>, <<"/p/[^/]+$">>)
     EXCEPT !.requires_js = TRUE, !.infinite_scroll = TRUE, !.use_undetected = TRUE,
            !.max_scroll_attempts = 20, !.feed_urls = ArchiveFeeds,
            !.custom_headers = BrowserHeaders]

InterviewingConfig ==
    [SiteConfig("interviewing.io", <<".pagination a", ".next-page">>,
                <<"/blog/[^/]+$", "/learn/[^/]+$", "/topics/[^#]+$">>)
     EXCEPT !.requires_js = TRUE, !.api_endpoints = <<"/api/blog/posts">>,
            !.use_playwright = TRUE, !.feed_urls = BlogFeeds,
            !.custom_headers = BrowserHeaders]

\* self.site_configs as __init__ builds it: a dict keeps its insertion order,
\* and every key is its config's domain
InitialSiteConfigs == <<QuillConfig, SubstackConfig, InterviewingConfig>>

\* the config _get_site_config builds for a domain no entry matches
DefaultConfig(dom) ==
    SiteConfig(dom, <<".pagination a", ".next-page">>, <<"/blog/[^/]+$", "/post/[^/]+$">>)

VARIABLES
    nseeds,          \* environment: len(urls), the seeds scrape_urls is given
    web,             \* environment: the href values the documents of the web mention
    site_configs,    \* self.site_configs
    visited_urls,    \* self.visited_urls
    content_urls,    \* self.content_urls
    driver,          \* self.driver: "None", "open", or "quit" (a handle that was quit)
    pc,              \* where the crawl call is: "idle", "loop", "hung", "fallback", "return"
    start_url,       \* crawl's argument
    domain,          \* crawl's domain
    site_config,     \* crawl's site_config: 0 the new default config, i the entry i
    strategies,      \* crawl's strategies
    si,              \* the index of the strategy the for loop is at
    found_urls,      \* crawl's found_urls
    result,          \* what the last crawl call returned
    ncrawls,         \* history: the number of crawl calls so far
    calls,           \* history: the strategies this crawl awaited, with their outcome
    winner,          \* history: the first non-empty set a strategy returned in this crawl
    fallback,        \* history: what the all-links fallback did in this crawl
    evals,           \* history: the _is_valid_content_url calls of the last step
    judged,          \* history: the URLs _is_valid_content_url was given in this crawl
    classified,      \* history: the _determine_content_type calls so far
    engines,         \* the browsers of this crawl: those launched, those still open
    exit,            \* how the last crawl call ended: "None", "return" or "raise"
    scrape,          \* a scrape call of an extractor: its arguments, what it met, its end
    feed,            \* a _crawl_with_feed call: its candidates, its for loop, its urls
    scroll,          \* a scroll loop: its config, its measurements, its scrolls
    pagination,      \* a pagination loop: its config, its page, the pages it requested
    orchestrator,    \* a scrape_urls call: its seeds, its lists, the scrape calls it made
    selenium         \* a _crawl_with_selenium call: its config, the page, its urls

vars ==
    <<nseeds, web, site_configs, visited_urls, content_urls, driver, pc, start_url, domain,
      site_config, strategies, si, found_urls, result, ncrawls, calls, winner, fallback, evals,
      judged, classified, engines, exit, scrape, feed, scroll, pagination, orchestrator,
      selenium>>

\* the routines that are followed step by step on their own
routines == <<feed, scroll, pagination, orchestrator, selenium>>

\* the variables of a crawl
crawl_vars ==
    <<nseeds, web, site_configs, visited_urls, content_urls, driver, pc, start_url, domain,
      site_config, strategies, si, found_urls, result, ncrawls, calls, winner, fallback, evals,
      judged, classified, engines, exit>>

(***************************************************************************)
(* _get_site_config: the first entry, in table order, whose domain is a    *)
(* substring of the given domain; a new default config otherwise.  The     *)
(* result is a reference: an entry of the table is returned itself, not a  *)
(* copy of it.                                                             *)
(***************************************************************************)
RECURSIVE FirstMatch(_, _)
FirstMatch(dom, i) ==
    IF i > Len(site_configs) THEN 0
    ELSE IF Contains(dom, site_configs[i].domain) THEN i
    ELSE FirstMatch(dom, i + 1)

\* a variant of _get_site_config: "config.domain == domain" for "in"
get_site_config_equal(dom) ==
    LET hits == {i \in 1..Len(site_configs) : site_configs[i].domain = dom}
    IN  IF hits = {} THEN 0 ELSE CHOOSE i \in hits : \A j \in hits : i <= j

get_site_config(dom) == FirstMatch(dom, 1)

\* the SiteConfig a reference stands for
Config(ref, dom) == IF ref = 0 THEN DefaultConfig(dom) ELSE site_configs[ref]

(***************************************************************************)
(* _is_valid_content_url: its return value, and self.visited_urls after it *)
(***************************************************************************)
is_valid_content_url(url, cfg, visited) ==
    /\ url # ""
    /\ url \notin visited
    /\ \E k \in 1..Len(cfg.content_patterns) : re_search(cfg.content_patterns[k], url)

visited_after(url, visited) ==
    IF url = "" \/ url \in visited THEN visited ELSE visited \cup {url}

(***************************************************************************)
(* _determine_content_type: the loop returns the dict KEY of the first     *)
(* entry one of whose patterns matches the lower-cased URL.                *)
(***************************************************************************)
RECURSIVE FirstPatternKey(_, _)
FirstPatternKey(url_lower, i) ==
    IF i > Len(site_configs) THEN "None"
    ELSE IF \E k \in 1..Len(site_configs[i].content_patterns) :
                re_search(site_configs[i].content_patterns[k], url_lower)
         THEN site_configs[i].domain
    ELSE FirstPatternKey(url_lower, i + 1)

\* a variant of _determine_content_type: a URL already in self.visited_urls is
\* not classified again
determine_content_type_once(url) ==
    LET url_lower == Lower(url)
        key       == FirstPatternKey(url_lower, 1)
    IN  IF url \in visited_urls THEN "ContentType.UNKNOWN"
        ELSE IF key # "None" THEN key
        ELSE IF Contains(url_lower, "blog") \/ Contains(url_lower, "posts")
             THEN "ContentType.BLOG"
        ELSE "ContentType.UNKNOWN"

determine_content_type(url) ==
    LET url_lower == Lower(url)
        key       == FirstPatternKey(url_lower, 1)
    IN  IF key # "None" THEN key
        ELSE IF Contains(url_lower, "blog") \/ Contains(url_lower, "posts")
             THEN "ContentType.BLOG"
        ELSE "ContentType.UNKNOWN"

(***************************************************************************)
(* _get_next_page_url: the first pagination selector holding "{page}",     *)
(* formatted with the page number and joined to the base URL; None when    *)
(* there is none.                                                          *)
(***************************************************************************)
\* str(page) for 0 <= page < 100
Str(n) ==
    IF n < 10 THEN Char(Digits, n + 1)
    ELSE Char(Digits, (n \div 10) + 1) \o Char(Digits, (n % 10) + 1)

\* pattern.format(page=page)
RECURSIVE Format(_, _)
Format(pattern, page) ==
    IF pattern = "" THEN ""
    ELSE IF StartsWithAt(pattern, "{page}", 1)
         THEN Str(page) \o Format(From(pattern, 7), page)
    ELSE Char(pattern, 1) \o Format(From(pattern, 2), page)

\* a variant of the search: the last selector holding "{page}"
FirstTemplate_last(selectors, i) ==
    LET holders == {j \in i..Len(selectors) : Contains(selectors[j], "{page}")}
    IN  IF holders = {} THEN 0 ELSE CHOOSE j \in holders : \A k \in holders : k <= j

RECURSIVE FirstTemplate(_, _)
FirstTemplate(selectors, i) ==
    IF i > Len(selectors) THEN 0
    ELSE IF Contains(selectors[i], "{page}") THEN i
    ELSE FirstTemplate(selectors, i + 1)

get_next_page_url(base_url, page, cfg) ==
    LET i == FirstTemplate(cfg.pagination_selectors, 1)
    IN  IF i = 0 THEN "None"
        ELSE urljoin(base_url, Format(cfg.pagination_selectors[i], page))

\* _extract_all_links: every <a href> joined to the base URL, kept when it
\* starts with "http" (BeautifulSoup's href=True drops tags without href)
extract_all_links(hrefs, base_url) ==
    {full_url \in {urljoin(base_url, hrefs[i]) : i \in 1..Len(hrefs)} :
        StartsWithAt(full_url, "http", 1)}

(***************************************************************************)
(* The environment: the seed URLs the orchestrator is given, and what the  *)
(* web serves.                                                             *)
(***************************************************************************)
Seeds ==
    {"https://example.com/blog/",          \* no known site; its pages link to it
     "https://quill.co/blog",              \* the specially-recognized domain
     "https://x.substack.com/p/slug",      \* a newsletter post
     "https://interviewing.io/",           \* a known site with API endpoints
     "https://quill.co.substack.com/",     \* a domain two entries of the table match
     "http://[bad"}                        \* not a URL

\* the href values, feed links and JSON strings a document may hold
AllHrefs ==
    <<"/blog/post-1", "https://example.com/blog/", "/about",
      "https://x.substack.com/p/next", "", "//cdn.example.net/blog/x">>

Hrefs(n) == {AllHrefs[i] : i \in 1..n}

\* the anchors of one document, in document order: any of the hrefs the web
\* mentions, each once
RECURSIVE Listing(_, _)
Listing(chosen, i) ==
    IF i > Len(AllHrefs) THEN <<>>
    ELSE (IF AllHrefs[i] \in chosen THEN <<AllHrefs[i]>> ELSE <<>>)
            \o Listing(chosen, i + 1)

Anchors == {Listing(chosen, 1) : chosen \in SUBSET web}

\* the values of fake_useragent's ua.random
UserAgents == {"UA-1", "UA-2"}

\* the headings a static page may show
Titles == {"Why Us?"}

(***************************************************************************)
(* A harvest: the loop                                                     *)
(*     for each href: if [href and] self._is_valid_content_url(href, cfg): *)
(*         urls.add(href)                                                  *)
(* over the anchors a document holds.  h is the state of the loop: urls,   *)
(* self.visited_urls, and the history of the calls made.  guarded says     *)
(* that the caller tests href for truth before the call.                   *)
(***************************************************************************)
HarvestStart == [urls |-> {}, visited |-> visited_urls, evals |-> <<>>, judged |-> judged]

RECURSIVE Harvest(_, _, _, _)
Harvest(anchors, cfg, guarded, h) ==
    IF anchors = <<>> THEN h
    ELSE LET href == Head(anchors)
             ok   == is_valid_content_url(href, cfg, h.visited)
         IN  IF guarded /\ href = ""
             THEN Harvest(Tail(anchors), cfg, guarded, h)
             ELSE Harvest(Tail(anchors), cfg, guarded,
                     [urls    |-> IF ok THEN h.urls \cup {href} ELSE h.urls,
                      visited |-> visited_after(href, h.visited),
                      evals   |-> Append(h.evals,
                                    [url |-> href, ret |-> ok, seen |-> href \in h.judged]),
                      judged  |-> h.judged \cup {href}])

\* a strategy that ends without a harvest
NoHarvest(urls) == [HarvestStart EXCEPT !.urls = urls]

\* a variant of the for loop: its except clause ends the loop ("break" for
\* "continue")
loop_ends_on_raise(raised, break) == raised \/ break \/ si = Len(strategies)

\* a variant of the for loop without its break: the strategies after the first
\* non-empty set are awaited and merged too
loop_ends_at_last(raised, break) == si = Len(strategies)

\* crawl's for loop ends after a strategy: at the break that follows a merge, or
\* with the last strategy; the except clause continues
loop_ends(raised, break) == break \/ si = Len(strategies)

(***************************************************************************)
(* The body of crawl's for loop after "urls = await strategy(...)", and    *)
(* its except clause: raised says that the strategy raised.  A KeyError    *)
(* of self.content_urls[content_type] is caught by the same except clause. *)
(***************************************************************************)
LoopBody(name, raised, h) ==
    LET nonempty     == ~raised /\ h.urls # {}
        content_type == determine_content_type(start_url)
        keyerror     == nonempty /\ content_type \notin DOMAIN content_urls
        break        == nonempty /\ ~keyerror
    IN  /\ visited_urls' = h.visited
        /\ evals' = h.evals
        /\ judged' = h.judged
        /\ found_urls' = IF nonempty THEN found_urls \cup h.urls ELSE found_urls
        /\ content_urls' =
              IF break THEN [content_urls EXCEPT ![content_type] = @ \cup h.urls]
              ELSE content_urls
        /\ classified' =
              IF nonempty
              THEN classified \cup {[url |-> start_url, type |-> content_type]}
              ELSE classified
        /\ winner' = IF nonempty /\ ~winner.some THEN [some |-> TRUE, urls |-> h.urls]
                     ELSE winner
        /\ calls' = Append(calls,
                      [name |-> name,
                       outcome |-> IF raised THEN "raise"
                                   ELSE IF nonempty THEN "nonempty" ELSE "empty",
                       urls |-> IF raised THEN {} ELSE h.urls])
        /\ IF loop_ends(raised, break)
           THEN pc' = "fallback" /\ si' = si
           ELSE pc' = "loop" /\ si' = si + 1
        /\ UNCHANGED <<nseeds, web, start_url, domain, site_config, strategies, result, ncrawls,
                       fallback, exit, scrape, routines>>

\* a browser is launched, a browser is closed
launch(e, name) == [launched |-> e.launched \cup {name}, open |-> e.open \cup {name}]

close(e, name) == [e EXCEPT !.open = @ \ {name}]

\* a browser a strategy launches for itself and closes before it returns:
\* "async with async_playwright()", and driver.quit() in a finally
scoped(e, name) == close(launch(e, name), name)

\* the strategy the for loop is at
AtStrategy(name) == pc = "loop" /\ strategies[si] = name

\* crawl's site_config, as a value
config == Config(site_config, domain)

\* self.max_pages, as ScraperOrchestrator constructs the crawler
max_pages == 10

(***************************************************************************)
(* The pagination loop "while page < self.max_pages" the harvesting        *)
(* strategies share: it ends at once when _get_next_page_url returns None. *)
(* Otherwise the pages 1 .. max_pages - 1 are fetched in turn and          *)
(* harvested like the seed page; more stands for their anchors, in the     *)
(* order of the fetches.                                                   *)
(***************************************************************************)
MorePages ==
    IF 1 < max_pages /\ get_next_page_url(start_url, 1, config) # "None"
    THEN Anchors ELSE {<<>>}

(***************************************************************************)
(* crawl, up to its for loop: resolve the config, build the strategy list. *)
(* urlparse raising is caught by the outer except clause, which returns.   *)
(***************************************************************************)
\* a variant of the list: the plain GET before the API endpoints
GenericOrder_requests_first(c) ==
    <<"crawl_with_feed",
      IF c.use_playwright THEN "crawl_with_playwright" ELSE "None",
      IF c.use_undetected THEN "crawl_with_undetected" ELSE "None",
      "crawl_with_selenium",
      IF c.use_cloudscraper THEN "crawl_with_cloudscraper" ELSE "None",
      "crawl_with_requests",
      "crawl_with_api",
      "crawl_with_aggressive_selenium">>

GenericOrder(c) ==
    <<"crawl_with_feed",
      IF c.use_playwright THEN "crawl_with_playwright" ELSE "None",
      IF c.use_undetected THEN "crawl_with_undetected" ELSE "None",
      "crawl_with_selenium",
      IF c.use_cloudscraper THEN "crawl_with_cloudscraper" ELSE "None",
      "crawl_with_api",
      "crawl_with_requests",
      "crawl_with_aggressive_selenium">>

IsStrategy(s) == s # "None"

build_strategies(dom, c) ==
    IF Contains(dom, "quill.co")
    THEN <<"crawl_with_quill_api", "crawl_with_playwright", "crawl_with_quill_bs">>
    ELSE SelectSeq(GenericOrder(c), IsStrategy)

crawl(url) ==
    /\ pc = "idle"
    /\ ncrawls < nseeds
    /\ ncrawls' = ncrawls + 1
    /\ start_url' = url
    /\ found_urls' = {}
    /\ si' = 1
    /\ calls' = <<>>
    /\ winner' = [some |-> FALSE, urls |-> {}]
    /\ fallback' = [runs |-> 0, fetched |-> FALSE, extracted |-> {}, links |-> {}]
    /\ evals' = <<>>
    /\ judged' = {}
    /\ engines' = [launched |-> {}, open |-> engines.open]
    /\ exit' = "None"
    /\ IF urlparse_raises(url)
       THEN /\ pc' = "return"
            /\ domain' = ""
            /\ site_config' = 0
            /\ strategies' = <<>>
       ELSE /\ pc' = "loop"
            /\ domain' = netloc(url)
            /\ site_config' = get_site_config(domain')
            /\ strategies' = build_strategies(domain', Config(site_config', domain'))
    /\ UNCHANGED <<nseeds, web, site_configs, visited_urls, content_urls, driver, result,
                   classified, scrape, routines>>

(***************************************************************************)
(* The strategies.  Each is one step of the for loop: the strategy's call  *)
(* and the loop body that follows it.  What the network serves is chosen   *)
(* by the environment: anchors are the href values the selectors find on   *)
(* the page fetched (or rendered).  A fetch that fails, or a page that is  *)
(* not served with status 200, ends a strategy like a page without         *)
(* anchors does: both are the empty document.                              *)
(***************************************************************************)
\* _crawl_with_feed: the links of the entries of the first feed that has any
crawl_with_feed ==
    /\ AtStrategy("crawl_with_feed")
    /\ \E entries \in Anchors :
          LoopBody("crawl_with_feed", FALSE, NoHarvest(Range(entries)))
    /\ UNCHANGED <<site_configs, driver, engines>>

\* _crawl_with_playwright: on quill.co the URLs of the requests seen and of the
\* pages the cards open that hold "/blog/"; elsewhere a harvest
crawl_with_playwright ==
    /\ AtStrategy("crawl_with_playwright")
    /\ \E started \in BOOLEAN :
          IF ~started
          THEN /\ LoopBody("crawl_with_playwright", FALSE, NoHarvest({}))
               /\ engines' = engines
          ELSE \E anchors \in Anchors, more \in MorePages :
                  /\ LoopBody("crawl_with_playwright", FALSE,
                        IF Contains(domain, "quill.co")
                        THEN NoHarvest({u \in Range(anchors) :
                                          /\ u # ""
                                          /\ Contains(u, "/blog/")
                                          /\ u \notin {start_url, start_url \o "/"}})
                        ELSE Harvest(anchors \o more, config, TRUE, HarvestStart))
                  /\ engines' = scoped(engines, "playwright")
    /\ UNCHANGED <<site_configs, driver>>

\* _crawl_with_undetected: a harvest in a browser of its own, quit in a finally
crawl_with_undetected ==
    /\ AtStrategy("crawl_with_undetected")
    /\ \E started \in BOOLEAN :
          IF ~started
          THEN /\ LoopBody("crawl_with_undetected", FALSE, NoHarvest({}))
               /\ engines' = engines
          ELSE \E anchors \in Anchors, more \in MorePages :
                  /\ LoopBody("crawl_with_undetected", FALSE,
                        Harvest(anchors \o more, config, TRUE, HarvestStart))
                  /\ engines' = scoped(engines, "undetected")
    /\ UNCHANGED <<site_configs, driver>>

\* _init_browser: self.driver after it, when Chrome starts
init_browser(d) == IF d = "None" THEN "open" ELSE d

\* _init_browser: the browsers after it, when Chrome starts
init_browser_engines(d, e) == IF d = "None" THEN launch(e, "selenium") ELSE e

\* _crawl_with_selenium: _init_browser is called outside the try, and
\* self._handle_infinite_scroll() is called without its arguments (a TypeError,
\* which the strategy's except clause catches)
crawl_with_selenium ==
    /\ AtStrategy("crawl_with_selenium")
    /\ IF ~config.requires_js
       THEN /\ LoopBody("crawl_with_selenium", FALSE, NoHarvest({}))
            /\ driver' = driver
            /\ engines' = engines
       ELSE \E started \in (IF driver = "None" THEN BOOLEAN ELSE {TRUE}) :
               IF ~started
               THEN /\ LoopBody("crawl_with_selenium", TRUE, NoHarvest({}))
                    /\ driver' = driver
                    /\ engines' = engines
               ELSE IF init_browser(driver) = "quit" \/ config.infinite_scroll
               THEN /\ LoopBody("crawl_with_selenium", FALSE, NoHarvest({}))
                    /\ driver' = init_browser(driver)
                    /\ engines' = init_browser_engines(driver, engines)
               ELSE \E anchors \in Anchors, more \in MorePages :
                       /\ LoopBody("crawl_with_selenium", FALSE,
                             Harvest(anchors \o more, config, TRUE, HarvestStart))
                       /\ driver' = init_browser(driver)
                       /\ engines' = init_browser_engines(driver, engines)
    /\ UNCHANGED site_configs

\* _crawl_with_api: the strings of the JSON bodies of the configured endpoints
crawl_with_api ==
    /\ AtStrategy("crawl_with_api")
    /\ IF config.api_endpoints = <<>>
       THEN LoopBody("crawl_with_api", FALSE, NoHarvest({}))
       ELSE \E strings \in Anchors :
               LoopBody("crawl_with_api", FALSE,
                        Harvest(strings, config, FALSE, HarvestStart))
    /\ UNCHANGED <<site_configs, driver, engines>>

\* _crawl_with_requests: a harvest of the page a plain GET returns
crawl_with_requests ==
    /\ AtStrategy("crawl_with_requests")
    /\ \E anchors \in Anchors, more \in MorePages :
          LoopBody("crawl_with_requests", FALSE,
             Harvest(anchors \o more, config, TRUE, HarvestStart))
    /\ UNCHANGED <<site_configs, driver, engines>>

\* _crawl_with_aggressive_selenium: a harvest of every anchor of the rendered
\* page, then self.driver.quit() with self.driver left set.  started says
\* that Chrome starts, served that self.driver.get and the scrolls succeed;
\* the except clause ends the strategy before the quit otherwise.
crawl_with_aggressive_selenium ==
    /\ AtStrategy("crawl_with_aggressive_selenium")
    /\ \E started \in (IF driver = "None" THEN BOOLEAN ELSE {TRUE}) :
          IF ~started \/ driver = "quit"
          THEN /\ LoopBody("crawl_with_aggressive_selenium", FALSE, NoHarvest({}))
               /\ driver' = driver
               /\ engines' = engines
          ELSE \E served \in BOOLEAN :
                  IF ~served
                  THEN /\ LoopBody("crawl_with_aggressive_selenium", FALSE, NoHarvest({}))
                       /\ driver' = "open"
                       /\ engines' = init_browser_engines(driver, engines)
                  ELSE \E anchors \in Anchors :
                          /\ LoopBody("crawl_with_aggressive_selenium", FALSE,
                                Harvest(anchors, config, TRUE, HarvestStart))
                          /\ driver' = "quit"
                          /\ engines' =
                                close(init_browser_engines(driver, engines), "selenium")
    /\ UNCHANGED site_configs

\* headers = site_config.custom_headers or {}; headers['User-Agent'] = ua:
\* self.site_configs after it (a dict of the table is changed in place, the
\* new dict made for a config without headers is not the config's)
set_user_agent(ref, ua) ==
    IF ref = 0 \/ DOMAIN Config(ref, "").custom_headers = {}
    THEN site_configs
    ELSE [site_configs EXCEPT ![ref].custom_headers = ("User-Agent" :> ua) @@ @]

\* _crawl_with_quill_api: every string of the JSON bodies that holds "/blog/"
crawl_with_quill_api ==
    /\ AtStrategy("crawl_with_quill_api")
    /\ \E ua \in UserAgents, strings \in Anchors :
          /\ site_configs' = set_user_agent(site_config, ua)
          /\ LoopBody("crawl_with_quill_api", FALSE,
                NoHarvest({u \in Range(strings) : Contains(u, "/blog/")}))
    /\ UNCHANGED <<driver, engines>>

\* the slug _crawl_with_quill_bs makes of a heading
slug(title) ==
    Replace(Replace(Replace(Replace(Replace(Lower(title), " ", "-"), "?", ""),
                            ".", ""), ",", ""), "'", "")

\* _crawl_with_quill_bs: a candidate URL for each heading of the static page,
\* and the <loc> values of sitemap.xml that hold "/blog/"
crawl_with_quill_bs ==
    /\ AtStrategy("crawl_with_quill_bs")
    /\ \E ua \in UserAgents, headings \in SUBSET Titles, locs \in Anchors :
          /\ site_configs' = set_user_agent(site_config, ua)
          /\ LoopBody("crawl_with_quill_bs", FALSE,
                NoHarvest({"https://" \o domain \o "/blog/" \o slug(t) : t \in headings}
                          \cup {u \in Range(locs) : Contains(u, "/blog/")}))
    /\ UNCHANGED <<driver, engines>>

(***************************************************************************)
(* A GET without a timeout: requests.get(url) in _discover_feed_urls,      *)
(* _crawl_with_feed, _crawl_with_api and _crawl_with_requests waits for    *)
(* the answer as long as it takes, and crawl awaits its strategies without *)
(* a timeout of its own.  When the server accepts the connection and never *)
(* answers, the call does not return: the crawl stays where it is.         *)
(***************************************************************************)
untimed_get(name, c) ==
    \/ name \in {"crawl_with_feed", "crawl_with_requests"}
    \/ name = "crawl_with_api" /\ c.api_endpoints # <<>>

get_never_returns ==
    /\ pc = "loop"
    /\ untimed_get(strategies[si], config)
    /\ pc' = "hung"
    /\ UNCHANGED <<nseeds, web, site_configs, visited_urls, content_urls, driver, start_url,
                   domain, site_config, strategies, si, found_urls, result, ncrawls, calls,
                   winner, fallback, evals, judged, classified, engines, exit, scrape, routines>>

(***************************************************************************)
(* crawl's fallback block: "if not found_urls", a plain GET of the seed,   *)
(* every link of the page that is on the seed's domain.  Its except clause *)
(* catches the GET's failure and the KeyError of the merge alike.          *)
(***************************************************************************)
\* a variant of the test: "if not any(self.content_urls.values())"
run_fallback_if_no_bucket == \A ct \in DOMAIN content_urls : content_urls[ct] = {}

run_fallback == found_urls = {}

all_links_fallback ==
    /\ pc = "fallback"
    /\ pc' = "return"
    /\ IF ~run_fallback
       THEN UNCHANGED <<content_urls, classified, fallback>>
       ELSE \E served \in BOOLEAN :
            \E anchors \in (IF served THEN Anchors ELSE {<<>>}) :
               LET extracted == extract_all_links(anchors, start_url)
                   all_links == {l \in extracted : netloc(l) = domain}
                   content_type == determine_content_type(start_url)
                   merged == served /\ all_links # {}
               IN  /\ fallback' = [runs |-> fallback.runs + 1, fetched |-> served,
                                   extracted |-> IF served THEN extracted ELSE {},
                                   links |-> IF served THEN all_links ELSE {}]
                   /\ classified' =
                         IF merged
                         THEN classified \cup {[url |-> start_url, type |-> content_type]}
                         ELSE classified
                   /\ content_urls' =
                         IF merged /\ content_type \in DOMAIN content_urls
                         THEN [content_urls EXCEPT ![content_type] = @ \cup all_links]
                         ELSE content_urls
    /\ evals' = <<>>
    /\ UNCHANGED <<nseeds, web, site_configs, visited_urls, driver, start_url, domain, site_config,
                   strategies, si, found_urls, result, ncrawls, calls, winner, judged, engines,
                   exit, scrape, routines>>

(***************************************************************************)
(* crawl's return, on the normal path and in the outer except clause: the  *)
(* non-empty buckets of self.content_urls (each list holds the elements of *)
(* the bucket, in no particular order: a set); then _cleanup, in finally.  *)
(***************************************************************************)
\* a variant of the return: dict(self.content_urls), every bucket
all_buckets == content_urls

non_empty_buckets ==
    [ct \in {c \in DOMAIN content_urls : content_urls[c] # {}} |-> content_urls[ct]]

\* a variant of the quit: it raises when the driver's session is gone already
quit_raises_after_quit(d) == d = "quit"

\* a variant of _cleanup: the driver is left as it is
cleanup_skipped(d) == d

\* _cleanup: self.driver.quit() raising.  The quit of webdriver.Chrome catches
\* what the end of its session raises, on a driver that was quit before too.
quit_raises(d) == FALSE

\* _cleanup: self.driver after it
cleanup(d) == IF d # "None" THEN "None" ELSE d

\* _cleanup: the browsers after it
cleanup_engines(d, e) == IF d # "None" THEN close(e, "selenium") ELSE e

crawl_return ==
    /\ pc = "return"
    /\ pc' = "idle"
    /\ IF driver # "None" /\ quit_raises(driver)
       THEN /\ exit' = "raise"
            /\ UNCHANGED <<result, driver, engines>>
       ELSE /\ exit' = "return"
            /\ result' = non_empty_buckets
            /\ driver' = cleanup(driver)
            /\ engines' = cleanup_engines(driver, engines)
    /\ evals' = <<>>
    /\ UNCHANGED <<nseeds, web, site_configs, visited_urls, content_urls, start_url, domain,
                   site_config, strategies, si, found_urls, ncrawls, calls, winner, fallback, judged,
                   classified, scrape, routines>>

(***************************************************************************)
(* ContentCrawler.__init__, and ScraperOrchestrator.scrape_urls awaiting   *)
(* crawl for one seed after the other on the same crawler.                 *)
(***************************************************************************)
\* no scrape call of an extractor is in progress
NoScrape == [state |-> "None"]

\* no routine is followed on its own
NoCall == [state |-> "None"]

no_routines ==
    /\ feed = NoCall
    /\ scroll = NoCall
    /\ pagination = NoCall
    /\ orchestrator = NoCall
    /\ selenium = NoCall

\* ContentCrawler.__init__
new_crawler ==
    /\ site_configs = InitialSiteConfigs
    /\ visited_urls = {}
    /\ content_urls = [ct \in ContentType |-> {}]
    /\ driver = "None"
    /\ pc = "idle"
    /\ start_url = ""
    /\ domain = ""
    /\ site_config = 0
    /\ strategies = <<>>
    /\ si = 1
    /\ found_urls = {}
    /\ result = <<>>
    /\ ncrawls = 0
    /\ calls = <<>>
    /\ winner = [some |-> FALSE, urls |-> {}]
    /\ fallback = [runs |-> 0, fetched |-> FALSE, extracted |-> {}, links |-> {}]
    /\ evals = <<>>
    /\ judged = {}
    /\ classified = {}
    /\ engines = [launched |-> {}, open |-> {}]
    /\ exit = "None"

\* a new crawler, used for one crawl
Init ==
    /\ new_crawler
    /\ nseeds = 1
    /\ web = Hrefs(MaxHrefs)
    /\ scrape = NoScrape
    /\ no_routines

\* a new crawler, used by scrape_urls for a list of seeds
InitSeq ==
    /\ new_crawler
    /\ nseeds = MaxCrawls
    /\ web = Hrefs(SeqHrefs)
    /\ scrape = NoScrape
    /\ no_routines

scrape_urls == \E url \in Seeds : crawl(url)

Next ==
    \/ scrape_urls
    \/ crawl_with_feed
    \/ crawl_with_playwright
    \/ crawl_with_undetected
    \/ crawl_with_selenium
    \/ crawl_with_api
    \/ crawl_with_requests
    \/ crawl_with_aggressive_selenium
    \/ crawl_with_quill_api
    \/ crawl_with_quill_bs
    \/ get_never_returns
    \/ all_links_fallback
    \/ crawl_return

\* one crawl on a new crawler
Spec == Init /\ [][Next]_vars

\* the crawls of scrape_urls, one after the other on the same crawler
SpecSeq == InitSeq /\ [][Next]_vars

(***************************************************************************)
(* The extractors: BlogScraper.scrape and PDFScraper.scrape.  A call is    *)
(* given a URL and the seed it was found under; what it meets is chosen by *)
(* the environment: how the GET ends, how each of BlogScraper's three ways *)
(* of making text of the page ends, how the reading of the PDF ends.       *)
(***************************************************************************)
ScrapeUrls ==
    {"/blog/post-1", "https://example.com/blog/post-1", "https://example.com/a.pdf", "a.pdf"}

ScrapeBases == {"https://example.com/blog/", "https://quill.co/blog"}

\* a GET: it raises, it is answered with another status, it is answered with 200
Gets == {"error", "404", "200"}

\* a conversion: it raises, it yields no text, it yields text
Conversions == {"error", "empty", "text"}

\* the ContentItem the extractors make: content_type is "blog" in both
ContentItem(url) == [content_type |-> "blog", source_url |-> url]

\* self.logger.error(...) in an except clause: BlogScraper.__init__ sets
\* self.logger; PDFScraper.__init__ and BaseScraper.__init__ set none, so the
\* attribute lookup raises AttributeError out of the except clause
has_logger(scraper) == scraper = "BlogScraper"

\* the end of a scrape call whose outer except clause was entered
scrape_except(scraper) ==
    [raised |-> ~has_logger(scraper), items |-> <<>>]

\* BlogScraper.scrape
RECURSIVE FirstText(_, _)
FirstText(ways, i) ==
    IF i > Len(ways) THEN 0
    ELSE IF ways[i] = "text" THEN i
    ELSE FirstText(ways, i + 1)

BlogScraper_scrape(url, base_url, get, ways) ==
    LET full == IF base_url # "None" THEN urljoin(base_url, url)
                ELSE IF ~(StartsWithAt(Lower(url), "http://", 1)
                          \/ StartsWithAt(Lower(url), "https://", 1))
                     THEN urljoin("https://", url)
                ELSE url
    IN  IF get = "error" THEN scrape_except("BlogScraper")
        ELSE IF get # "200" THEN [raised |-> FALSE, items |-> <<>>]
        ELSE IF FirstText(ways, 1) = 0 THEN [raised |-> FALSE, items |-> <<>>]
        ELSE [raised |-> FALSE, items |-> <<ContentItem(full)>>]

\* PDFScraper.scrape: a URL is downloaded whatever the status of the answer,
\* a path is read as it is; text is one chunk
PDFScraper_scrape(url, base_url, get, read) ==
    IF StartsWithAt(Lower(url), "http", 1) /\ get = "error"
    THEN scrape_except("PDFScraper")
    ELSE IF read = "error" THEN scrape_except("PDFScraper")
    ELSE IF read = "empty" THEN [raised |-> FALSE, items |-> <<>>]
    ELSE [raised |-> FALSE, items |-> <<ContentItem(url)>>]

\* the scrape calls
ScrapeCalls ==
    [state : {"call"}, url : ScrapeUrls, base_url : ScrapeBases, get : Gets,
     ways : [1..3 -> Conversions], read : Conversions]

blog_scrape ==
    /\ scrape.state = "call"
    /\ LET end == BlogScraper_scrape(scrape.url, scrape.base_url, scrape.get, scrape.ways)
       IN  scrape' = [state |-> "done", scraper |-> "BlogScraper", url |-> scrape.url,
                      base_url |-> scrape.base_url, get |-> scrape.get, ways |-> scrape.ways,
                      read |-> scrape.read, raised |-> end.raised, items |-> end.items]
    /\ UNCHANGED <<nseeds, web, site_configs, visited_urls, content_urls, driver, pc, start_url,
                   domain, site_config, strategies, si, found_urls, result, ncrawls, calls,
                   winner, fallback, evals, judged, classified, engines, exit, routines>>

pdf_scrape ==
    /\ scrape.state = "call"
    /\ LET end == PDFScraper_scrape(scrape.url, scrape.base_url, scrape.get, scrape.read)
       IN  scrape' = [state |-> "done", scraper |-> "PDFScraper", url |-> scrape.url,
                      base_url |-> scrape.base_url, get |-> scrape.get, ways |-> scrape.ways,
                      read |-> scrape.read, raised |-> end.raised, items |-> end.items]
    /\ UNCHANGED <<nseeds, web, site_configs, visited_urls, content_urls, driver, pc, start_url,
                   domain, site_config, strategies, si, found_urls, result, ncrawls, calls,
                   winner, fallback, evals, judged, classified, engines, exit, routines>>

\* a scrape call of an extractor, whatever it meets
InitScrape ==
    /\ new_crawler
    /\ nseeds = 0
    /\ web = {}
    /\ scrape \in ScrapeCalls
    /\ no_routines

NextScrape ==
    \/ blog_scrape
    \/ pdf_scrape

\* one scrape call of one of the extractors
SpecScrape == InitScrape /\ [][NextScrape]_vars

\* one crawl on a new crawler, run by an event loop that has nothing else to
\* run: a step that can be taken is taken
SpecLive == Init /\ [][Next]_vars /\ WF_vars(Next)

(***************************************************************************)
(* _crawl_with_feed, followed through its for loop.  The candidates are    *)
(* the feed URLs _discover_feed_urls found and those of the config, in     *)
(* that order; what each of them serves is chosen by the environment: the  *)
(* entries feedparser.parse finds, how requests.get ends, and what         *)
(* ET.fromstring makes of the body.                                        *)
(***************************************************************************)
MaxFeeds == 2

\* the links of the entries feedparser finds, and of the <item> elements
EntryLinks == {{}, {"/blog/post-1"}}

\* what ET.fromstring makes of a body: it raises ParseError, or it finds these
\* links in the <item> and <entry> elements
Parses == {"ParseError", "empty", "items"}

ItemLinks(xml) == IF xml = "items" THEN {"https://x.substack.com/p/next"} ELSE {}

\* what a candidate serves
Served ==
    [entries : EntryLinks, get : Gets, xml : Parses]

\* feed_urls: the first candidates of the config's list, each with what it serves
FeedUrls ==
    UNION {[1..n -> Served] : n \in 0..MaxFeeds}

FeedCalls ==
    [state : {"loop"}, feed_urls : FeedUrls, i : {1}, urls : {{}}, broke : {FALSE},
     tried : {<<>>}]

\* one pass of "for feed_url in feed_urls": urls after it, and whether the
\* pass reached "if urls: break".  The ParseError handler and the handler of
\* the pass both "continue", past the test.
feed_pass(urls, c) ==
    LET parsed == urls \cup c.entries
    IN  IF c.get = "error" THEN [urls |-> parsed, tested |-> FALSE]
        ELSE IF c.get # "200" THEN [urls |-> parsed, tested |-> TRUE]
        ELSE IF c.xml = "ParseError" THEN [urls |-> parsed, tested |-> FALSE]
        ELSE [urls |-> parsed \cup ItemLinks(c.xml), tested |-> TRUE]

feed_try ==
    /\ feed.state = "loop"
    /\ ~feed.broke
    /\ feed.i <= Len(feed.feed_urls)
    /\ LET pass == feed_pass(feed.urls, feed.feed_urls[feed.i])
       IN  feed' = [feed EXCEPT !.urls = pass.urls,
                                !.broke = pass.tested /\ pass.urls # {},
                                !.i = @ + 1,
                                !.tried = Append(@, [i |-> feed.i, urls |-> pass.urls])]
    /\ UNCHANGED <<crawl_vars, scrape, scroll, pagination, orchestrator, selenium>>

\* "return urls", after the loop
feed_return ==
    /\ feed.state = "loop"
    /\ feed.broke \/ feed.i > Len(feed.feed_urls)
    /\ feed' = [feed EXCEPT !.state = "return"]
    /\ UNCHANGED <<crawl_vars, scrape, scroll, pagination, orchestrator, selenium>>

InitFeed ==
    /\ new_crawler
    /\ nseeds = 0
    /\ web = {}
    /\ scrape = NoScrape
    /\ feed \in FeedCalls
    /\ scroll = NoCall
    /\ pagination = NoCall
    /\ orchestrator = NoCall
    /\ selenium = NoCall

NextFeed ==
    \/ feed_try
    \/ feed_return

\* one _crawl_with_feed call, whatever the candidates serve
SpecFeed == InitFeed /\ [][NextFeed]_vars

(***************************************************************************)
(* The scroll loops.  _handle_playwright_infinite_scroll and               *)
(* _handle_infinite_scroll are the same loop on two browsers: measure the  *)
(* height, then scroll and measure again while attempts is below the       *)
(* config's max_scroll_attempts, and break at a height equal to the last.  *)
(* _crawl_with_aggressive_selenium scrolls in a for loop of its own.  The  *)
(* heights the page reports are chosen by the environment.                 *)
(***************************************************************************)
MaxHeight == 2

Heights == 1..MaxHeight

\* the configs a routine may be given: 0 the default config, i the entry i
ConfigRefs == 0..Len(InitialSiteConfigs)

\* the config of a routine followed on its own
routine_config(ref) == Config(ref, "example.com")

InfiniteScrolls == {"handle_playwright_infinite_scroll", "handle_infinite_scroll"}

\* the calls: last_height is measured before the loop
ScrollCalls ==
    [state : {"loop"}, routine : InfiniteScrolls, site_config : ConfigRefs,
     last_height : Heights, attempts : {0}, scrolls : {0}, broke : {FALSE}, late : {0}]
    \cup
    [state : {"loop"}, routine : {"crawl_with_aggressive_selenium"},
     site_config : ConfigRefs \ {1},
     last_height : {1}, attempts : {0}, scrolls : {0}, broke : {FALSE}, late : {0}]

\* the body of "while attempts < site_config.max_scroll_attempts": late counts
\* the scrolls performed after a height equal to the one before it
scroll_pass(s, new_height) ==
    IF new_height = s.last_height
    THEN [s EXCEPT !.scrolls = @ + 1,
                   !.late = IF s.broke THEN @ + 1 ELSE @,
                   !.broke = TRUE]
    ELSE [s EXCEPT !.scrolls = @ + 1,
                   !.late = IF s.broke THEN @ + 1 ELSE @,
                   !.last_height = new_height,
                   !.attempts = @ + 1]

\* a variant of the loop without its break
scrolling_past_equal(s) ==
    /\ s.state = "loop"
    /\ s.attempts < routine_config(s.site_config).max_scroll_attempts

\* the loop goes on: by its while condition, and not left by its break
scrolling(s) ==
    /\ s.state = "loop"
    /\ s.attempts < routine_config(s.site_config).max_scroll_attempts
    /\ ~s.broke

handle_playwright_infinite_scroll ==
    /\ scroll.state = "loop"
    /\ scroll.routine = "handle_playwright_infinite_scroll"
    /\ IF scrolling(scroll)
       THEN \E new_height \in Heights : scroll' = scroll_pass(scroll, new_height)
       ELSE scroll' = [scroll EXCEPT !.state = "return"]
    /\ UNCHANGED <<crawl_vars, scrape, feed, pagination, orchestrator, selenium>>

handle_infinite_scroll ==
    /\ scroll.state = "loop"
    /\ scroll.routine = "handle_infinite_scroll"
    /\ IF scrolling(scroll)
       THEN \E new_height \in Heights : scroll' = scroll_pass(scroll, new_height)
       ELSE scroll' = [scroll EXCEPT !.state = "return"]
    /\ UNCHANGED <<crawl_vars, scrape, feed, pagination, orchestrator, selenium>>

\* "for _ in range(15)" of _crawl_with_aggressive_selenium
aggressive_scrolls == 15

\* _crawl_with_aggressive_selenium: its for loop, one scroll per pass; no
\* height is measured
aggressive_scroll ==
    /\ scroll.state = "loop"
    /\ scroll.routine = "crawl_with_aggressive_selenium"
    /\ IF scroll.scrolls < aggressive_scrolls
       THEN scroll' = [scroll EXCEPT !.scrolls = @ + 1]
       ELSE scroll' = [scroll EXCEPT !.state = "return"]
    /\ UNCHANGED <<crawl_vars, scrape, feed, pagination, orchestrator, selenium>>

InitScroll ==
    /\ new_crawler
    /\ nseeds = 0
    /\ web = {}
    /\ scrape = NoScrape
    /\ feed = NoCall
    /\ scroll \in ScrollCalls
    /\ pagination = NoCall
    /\ orchestrator = NoCall
    /\ selenium = NoCall

NextScroll ==
    \/ handle_playwright_infinite_scroll
    \/ handle_infinite_scroll
    \/ aggressive_scroll

\* one scroll loop on one page, whatever heights the page reports
SpecScroll == InitScroll /\ [][NextScroll]_vars

(***************************************************************************)
(* The pagination loop of the harvesting strategies, followed pass by      *)
(* pass:                                                                   *)
(*     page = 1                                                            *)
(*     while page < self.max_pages:                                        *)
(*         next_page = self._get_next_page_url(url, page, site_config)     *)
(*         if not next_page: break                                         *)
(*         <request next_page, harvest it>                                 *)
(*         page += 1                                                       *)
(* The config is the default config with the pagination selectors of the   *)
(* call; how a request ends and which links a page adds are chosen by the  *)
(* environment.  A request that raises ends the strategy through its       *)
(* except clause, with the urls found so far.                              *)
(***************************************************************************)
MaxTemplates == 2

\* pagination selectors: a CSS selector, and two templates
Templates == {".next-page", "/page/{page}/", "?page={page}"}

PaginationSelectors == UNION {[1..n -> Templates] : n \in 0..MaxTemplates}

\* the seed pages
PageBases == {"https://example.com/blog/", "https://quill.co/blog"}

\* the valid links a page may add
PageLinks == {"/blog/post-1", "/blog/post-2"}

PaginationCalls ==
    [state : {"loop"}, url : PageBases, pagination_selectors : PaginationSelectors,
     page : {1}, urls : SUBSET PageLinks, asked : {<<>>}, requested : {<<>>}]

\* the site_config of the call
pagination_config(c) ==
    [DefaultConfig(netloc(c.url)) EXCEPT !.pagination_selectors = c.pagination_selectors]

\* a variant of the while condition: the page max_pages is requested too
more_pages_inclusive(page) == page <= max_pages

\* while page < self.max_pages
more_pages(page) == page < max_pages

\* one pass of the loop, or its end
pagination_pass ==
    /\ pagination.state = "loop"
    /\ IF ~more_pages(pagination.page)
       THEN pagination' = [pagination EXCEPT !.state = "return"]
       ELSE LET next_page == get_next_page_url(pagination.url, pagination.page,
                                               pagination_config(pagination))
                call      == [page |-> pagination.page, next_page |-> next_page]
            IN  IF next_page \in {"None", ""}
                THEN pagination' = [pagination EXCEPT !.state = "return",
                                                      !.asked = Append(@, call)]
                ELSE \E get \in Gets, found \in SUBSET PageLinks :
                        pagination' =
                           [pagination EXCEPT
                              !.asked = Append(@, call),
                              !.requested = Append(@, call),
                              !.urls = IF get = "200" THEN @ \cup found ELSE @,
                              !.state = IF get = "error" THEN "return" ELSE @,
                              !.page = IF get = "error" THEN @ ELSE @ + 1]
    /\ UNCHANGED <<crawl_vars, scrape, feed, scroll, orchestrator, selenium>>

InitPagination ==
    /\ new_crawler
    /\ nseeds = 0
    /\ web = {}
    /\ scrape = NoScrape
    /\ feed = NoCall
    /\ scroll = NoCall
    /\ pagination \in PaginationCalls
    /\ orchestrator = NoCall
    /\ selenium = NoCall

NextPagination == pagination_pass

\* one pagination loop, whatever the pages serve
SpecPagination == InitPagination /\ [][NextPagination]_vars

(***************************************************************************)
(* _crawl_with_selenium, followed step by step on one page: the anchors    *)
(* its content selectors match.  Whether Chrome starts and whether         *)
(* self.driver.get succeeds are chosen by the environment.  _init_browser  *)
(* is called before the try, so its exception leaves the strategy; what    *)
(* is raised inside the try ends the strategy with the urls found so far.  *)
(***************************************************************************)
\* the anchors of the page: any of these hrefs, in document order
SeleniumPages ==
    {Listing(chosen, 1) : chosen \in SUBSET {AllHrefs[1], AllHrefs[3], AllHrefs[4]}}

SeleniumCalls ==
    [state : {"call"}, site_config : ConfigRefs, page : SeleniumPages, served : {FALSE},
     scrolled : {FALSE}, urls : {{}}]

\* "self._handle_infinite_scroll()": the method takes (driver, site_config),
\* so the call without arguments raises TypeError before the method runs
handle_infinite_scroll_raises == TRUE

\* up to self._init_browser()
selenium_init ==
    /\ selenium.state = "call"
    /\ IF ~routine_config(selenium.site_config).requires_js
       THEN selenium' = [selenium EXCEPT !.state = "return"]
       ELSE \E started \in BOOLEAN :
               selenium' = [selenium EXCEPT !.state = IF started THEN "get" ELSE "raise"]
    /\ UNCHANGED <<crawl_vars, scrape, feed, scroll, pagination, orchestrator>>

\* self.driver.get(url) and the scroll
selenium_get ==
    /\ selenium.state = "get"
    /\ \E served \in BOOLEAN :
          IF ~served
          THEN selenium' = [selenium EXCEPT !.state = "return"]
          ELSE IF /\ routine_config(selenium.site_config).infinite_scroll
                  /\ handle_infinite_scroll_raises
          THEN selenium' = [selenium EXCEPT !.state = "return", !.served = TRUE]
          ELSE selenium' =
                  [selenium EXCEPT
                     !.state = "harvest", !.served = TRUE,
                     !.scrolled = routine_config(selenium.site_config).infinite_scroll]
    /\ UNCHANGED <<crawl_vars, scrape, feed, scroll, pagination, orchestrator>>

\* the harvest of the page; no config of the table has a pagination template,
\* so the pagination loop ends at once
selenium_harvest ==
    /\ selenium.state = "harvest"
    /\ LET h == Harvest(selenium.page, routine_config(selenium.site_config), TRUE,
                        HarvestStart)
       IN  /\ selenium' = [selenium EXCEPT !.state = "return", !.urls = h.urls]
           /\ visited_urls' = h.visited
           /\ evals' = h.evals
           /\ judged' = h.judged
    /\ UNCHANGED <<nseeds, web, site_configs, content_urls, driver, pc, start_url, domain,
                   site_config, strategies, si, found_urls, result, ncrawls, calls, winner,
                   fallback, classified, engines, exit>>
    /\ UNCHANGED <<scrape, feed, scroll, pagination, orchestrator>>

InitSelenium ==
    /\ new_crawler
    /\ nseeds = 0
    /\ web = {}
    /\ scrape = NoScrape
    /\ feed = NoCall
    /\ scroll = NoCall
    /\ pagination = NoCall
    /\ orchestrator = NoCall
    /\ selenium \in SeleniumCalls

NextSelenium ==
    \/ selenium_init
    \/ selenium_get
    \/ selenium_harvest

\* one _crawl_with_selenium call on one page
SpecSelenium == InitSelenium /\ [][NextSelenium]_vars

(***************************************************************************)
(* ScraperOrchestrator.scrape_urls, followed through its three loops: the  *)
(* crawl of each seed, the removal of duplicates, the scrape of each URL   *)
(* left.  What a crawl returns (the URLs of its buckets, in the order the  *)
(* dict and its lists are walked) and how a scrape call ends are chosen by *)
(* the environment: crawl and the extractors are modelled on their own.    *)
(***************************************************************************)
MaxSeeds == 2

\* the seeds scrape_urls may be given
SeedUrls == {"https://example.com/blog/", "https://example.com/blog/post-1", "local.pdf"}

\* os.path.isfile(url)
isfile(url) == url = "local.pdf"

SeedLists == UNION {[1..n -> SeedUrls] : n \in 0..MaxSeeds}

\* what a crawl may return, flattened: nothing, a post, a post and a PDF, the
\* seed page and a page no scraper handles, a URL held by two buckets
CrawlResults ==
    {<<>>,
     <<"https://example.com/blog/post-1">>,
     <<"https://example.com/a.pdf", "https://example.com/blog/post-1">>,
     <<"https://example.com/blog/", "https://example.com/about">>,
     <<"https://example.com/blog/post-2", "https://example.com/blog/post-2">>}

DigitChars == Chars(Digits)

\* re.search(r'/blog/\d{4}/', s); the two longer date patterns match only
\* where this one does
year_url(s) ==
    \E i \in 1..Len(s) :
        /\ StartsWithAt(s, "/blog/", i)
        /\ i + 10 <= Len(s)
        /\ \A j \in (i + 6)..(i + 9) : Char(s, j) \in DigitChars
        /\ Char(s, i + 10) = "/"

\* re.search(<literal>[^/]+/[^/]+$, s)
two_segments(literal, s) ==
    \E i \in 1..Len(s), k \in 1..Len(s) :
        /\ StartsWithAt(s, literal, i)
        /\ i + Len(literal) < k
        /\ k < Len(s)
        /\ Char(s, k) = "/"
        /\ \A j \in (i + Len(literal))..Len(s) : j # k => Char(s, j) # "/"

\* BlogScraper.can_handle
BlogScraper_can_handle(url) ==
    LET s == Lower(url)
    IN  \/ year_url(s)
        \/ re_search("/blog/[^/]+$", s)
        \/ re_search("/posts/[^/]+$", s)
        \/ re_search("/article/[^/]+$", s)
        \/ Contains(s, ".substack.com/p/")
        \/ two_segments("medium.com/@", s)
        \/ two_segments("dev.to/", s)

\* str.endswith
EndsWith(s, p) == Len(p) <= Len(s) /\ SubSeq(s, Len(s) - Len(p) + 1, Len(s)) = p

\* PDFScraper.can_handle
PDFScraper_can_handle(url) == EndsWith(Lower(url), ".pdf")

\* _get_scraper_for_url: the first scraper of self.scrapers that can handle
\* the URL, None when there is none
get_scraper_for_url(url) ==
    IF BlogScraper_can_handle(url) THEN "BlogScraper"
    ELSE IF PDFScraper_can_handle(url) THEN "PDFScraper"
    ELSE "None"

\* a variant of the removal of duplicates: the last occurrence is kept
RECURSIVE unique_last(_, _)
unique_last(pairs, seen) ==
    IF pairs = <<>> THEN <<>>
    ELSE LET last == pairs[Len(pairs)]
             rest == SubSeq(pairs, 1, Len(pairs) - 1)
         IN  IF last[1] \in seen THEN unique_last(rest, seen)
             ELSE Append(unique_last(rest, seen \cup {last[1]}), last)

\* "Remove duplicates": the pairs whose found_url is not in seen, in order
RECURSIVE unique(_, _)
unique(pairs, seen) ==
    IF pairs = <<>> THEN <<>>
    ELSE IF Head(pairs)[1] \in seen THEN unique(Tail(pairs), seen)
    ELSE <<Head(pairs)>> \o unique(Tail(pairs), seen \cup {Head(pairs)[1]})

\* the pairs (found_url, url) one crawl result adds
found_pairs(crawled, url) == [i \in 1..Len(crawled) |-> <<crawled[i], url>>]

OrchestratorCalls ==
    [state : {"crawl"}, urls : SeedLists, k : {1}, all_urls_to_scrape : {<<>>},
     unique_urls : {<<>>}, j : {1}, handed : {<<>>}]

\* one pass of "for url in urls"
scrape_urls_crawl ==
    /\ orchestrator.state = "crawl"
    /\ orchestrator.k <= Len(orchestrator.urls)
    /\ LET url == orchestrator.urls[orchestrator.k]
       IN  IF isfile(url) /\ EndsWith(Lower(url), ".pdf")
           THEN orchestrator' =
                   [orchestrator EXCEPT !.k = @ + 1,
                                        !.all_urls_to_scrape = Append(@, <<url, url>>)]
           ELSE \E crawled \in CrawlResults :
                   orchestrator' =
                      [orchestrator EXCEPT
                         !.k = @ + 1,
                         !.all_urls_to_scrape =
                            Append(@, <<url, url>>) \o found_pairs(crawled, url)]
    /\ UNCHANGED <<crawl_vars, scrape, feed, scroll, pagination, selenium>>

\* the removal of duplicates, after the last seed
scrape_urls_unique ==
    /\ orchestrator.state = "crawl"
    /\ orchestrator.k > Len(orchestrator.urls)
    /\ orchestrator' =
          [orchestrator EXCEPT !.state = "scrape",
                               !.unique_urls = unique(orchestrator.all_urls_to_scrape, {})]
    /\ UNCHANGED <<crawl_vars, scrape, feed, scroll, pagination, selenium>>

\* one pass of "for found_url, base_url in unique_urls": the except clause
\* continues with the next pair
scrape_urls_scrape ==
    /\ orchestrator.state = "scrape"
    /\ orchestrator.j <= Len(orchestrator.unique_urls)
    /\ LET pair    == orchestrator.unique_urls[orchestrator.j]
           scraper == get_scraper_for_url(pair[1])
       IN  IF scraper = "None"
           THEN orchestrator' = [orchestrator EXCEPT !.j = @ + 1]
           ELSE \E raised \in BOOLEAN :
                   orchestrator' =
                      [orchestrator EXCEPT
                         !.j = @ + 1,
                         !.handed = Append(@, [found_url |-> pair[1], base_url |-> pair[2],
                                               scraper |-> scraper, raised |-> raised])]
    /\ UNCHANGED <<crawl_vars, scrape, feed, scroll, pagination, selenium>>

\* return ScraperResult(...)
scrape_urls_return ==
    /\ orchestrator.state = "scrape"
    /\ orchestrator.j > Len(orchestrator.unique_urls)
    /\ orchestrator' = [orchestrator EXCEPT !.state = "return"]
    /\ UNCHANGED <<crawl_vars, scrape, feed, scroll, pagination, selenium>>

InitOrchestrator ==
    /\ new_crawler
    /\ nseeds = 0
    /\ web = {}
    /\ scrape = NoScrape
    /\ feed = NoCall
    /\ scroll = NoCall
    /\ pagination = NoCall
    /\ orchestrator \in OrchestratorCalls
    /\ selenium = NoCall

NextOrchestrator ==
    \/ scrape_urls_crawl
    \/ scrape_urls_unique
    \/ scrape_urls_scrape
    \/ scrape_urls_return

\* one scrape_urls call, whatever the crawls return and the scrapes meet
SpecOrchestrator == InitOrchestrator /\ [][NextOrchestrator]_vars

(***************************************************************************)
(* The properties.  The history variables hold what they speak of: calls,  *)
(* winner and fallback for the crawl in progress (or the last one), evals  *)
(* for the last step, classified for the crawler's life.                   *)
(***************************************************************************)

\* C1: the strategy chain stops at the first strategy that returns a non-empty
\* set: the for loop ends there, and no strategy is awaited after it.
C1_ChainStopsAtFirstNonEmpty ==
    \A i \in 1..Len(calls) :
        calls[i].outcome = "nonempty" => (i = Len(calls) /\ pc # "loop")

\* C2: one crawl on a new crawler, one of whose strategies returned a non-empty
\* set: what crawl returns is exactly one bucket, keyed by the type the seed
\* URL is classified as, holding the first non-empty set a strategy returned.
C2_FreshCrawlReturnsWinnersBucket ==
    (pc = "idle" /\ ncrawls = 1 /\ winner.some) =>
        result = (determine_content_type(start_url) :> winner.urls)

\* C3: a strategy that raises is treated like one that returned nothing: nothing
\* is found by it, the for loop goes on, and the next strategy of the chain
\* is the next one awaited.
C3_RaisingStrategyIsSkipped ==
    /\ (\A j \in 1..Len(calls) : calls[j].outcome \in {"raise", "empty"}) =>
            (found_urls = {} /\ ~winner.some)
    /\ \A i \in 1..Len(calls) :
          (calls[i].outcome = "raise" /\ i < Len(strategies)) =>
              IF i < Len(calls)
              THEN calls[i + 1].name = strategies[i + 1]
              ELSE pc \in {"loop", "hung"} /\ si = i + 1

\* a strategy raised, and the strategy after it was awaited
C3_Witness ==
    \E i \in 1..Len(calls) : calls[i].outcome = "raise" /\ i < Len(calls)

\* C4: the all-links fallback runs at most once in a crawl; it has run only if
\* every strategy of the chain was tried and none returned a non-empty set;
\* and once crawl is past its fallback block with such a chain, it has run.
C4_FallbackIffChainYieldedNothing ==
    LET tried_all == strategies # <<>> /\ Len(calls) = Len(strategies)
        nothing   == \A i \in 1..Len(calls) : calls[i].outcome \in {"raise", "empty"}
    IN  /\ fallback.runs <= 1
        /\ fallback.runs = 1 => (tried_all /\ nothing)
        /\ (pc \in {"return", "idle"} /\ tried_all /\ nothing) => fallback.runs = 1

\* the fallback ran after a chain of five strategies, none of which found a URL
C4_Witness ==
    /\ fallback.runs = 1
    /\ Len(calls) >= 5
    /\ pc = "idle"

\* C5: every strategy came back empty and the fallback's GET succeeded: what
\* crawl returns holds the links of the page that are on the seed's domain,
\* and nothing else.
C5_FallbackReturnsSameDomainLinks ==
    (/\ pc = "idle"
     /\ strategies # <<>>
     /\ Len(calls) = Len(strategies)
     /\ \A i \in 1..Len(calls) : calls[i].outcome \in {"raise", "empty"}
     /\ fallback.fetched) =>
        UNION {result[ct] : ct \in DOMAIN result}
            = {l \in fallback.extracted : netloc(l) = netloc(start_url)}

\* C6: the state of a crawl is its own: a crawl starts with an empty visited
\* set and empty buckets, whatever the crawler did before, and what it returns
\* holds only URLs this crawl found.
C6_CrawlStartsWithEmptyState ==
    /\ (pc = "loop" /\ calls = <<>>) =>
          (visited_urls = {} /\ \A ct \in DOMAIN content_urls : content_urls[ct] = {})
    /\ (pc = "idle" /\ ncrawls > 0) =>
          UNION {result[ct] : ct \in DOMAIN result} \subseteq winner.urls \cup fallback.links

\* C7: _is_valid_content_url returns true exactly when the URL was not given to
\* it before in this crawl and matches one of the content patterns of the
\* crawl's config; and a non-empty URL it was given is in the visited set.
C7_ValidIffFirstEvaluationAndMatches ==
    \A k \in 1..Len(evals) :
        /\ evals[k].ret =
              (/\ ~evals[k].seen
               /\ \E p \in 1..Len(config.content_patterns) :
                     re_search(config.content_patterns[p], evals[k].url))
        /\ evals[k].url # "" => evals[k].url \in visited_urls

\* C8: what _determine_content_type returns is a member of ContentType.
C8_ClassifierReturnsContentType ==
    \A r \in classified : r.type \in ContentType

\* C9: _determine_content_type returns a value for every URL, and for the URLs
\* it was called with it returns in every later state what it returned then,
\* whatever the crawl has visited, found or stored since.
C9_ClassifierIsStateIndependent ==
    /\ \A u \in Seeds \cup web :
          determine_content_type(u) \in
             ContentType \cup {site_configs[i].domain : i \in 1..Len(site_configs)}
    /\ \A r \in classified : determine_content_type(r.url) = r.type

\* the seed was classified, and since then it was visited and its bucket filled
C9_Witness ==
    \E r \in classified :
        /\ r.url \in visited_urls
        /\ r.type \in ContentType
        /\ content_urls[r.type] # {}

\* C10: the config of a crawl is the first entry, in table order, whose domain
\* is a substring of the seed's host; with no such entry it is a default for the
\* host with two content patterns, no JavaScript rendering and no API endpoint.
C10_ConfigIsFirstMatchOrDefault ==
    strategies # <<>> =>
        LET host == netloc(start_url)
            hits == {i \in 1..Len(site_configs) : Contains(host, site_configs[i].domain)}
        IN  IF hits = {}
            THEN /\ site_config = 0
                 /\ config.domain = host
                 /\ Len(config.content_patterns) = 2
                 /\ ~config.requires_js
                 /\ config.api_endpoints = <<>>
            ELSE /\ site_config \in hits
                 /\ \A j \in hits : site_config <= j
                 /\ config = site_configs[site_config]

\* a crawl whose host two entries of the table match
C10_Witness ==
    /\ strategies # <<>>
    /\ Cardinality({i \in 1..Len(site_configs) :
                       Contains(netloc(start_url), site_configs[i].domain)}) = 2

\* C11: every strategy of the chain failed or returned nothing, and the fallback
\* failed or found no link on the seed's domain: crawl returns the empty
\* mapping.
C11_TotalFailureReturnsEmpty ==
    (/\ pc = "idle"
     /\ exit = "return"
     /\ strategies # <<>>
     /\ Len(calls) = Len(strategies)
     /\ \A i \in 1..Len(calls) : calls[i].outcome \in {"raise", "empty"}
     /\ fallback.links = {}) =>
        DOMAIN result = {}

\* C12: crawl never ends by raising; a crawl in which a strategy raised, the
\* fallback's GET failed, or the merge of a result under its classified type
\* failed, has returned a mapping from content types when it is over.
C12_FailuresStayInsideCrawl ==
    LET strategy_raised == \E i \in 1..Len(calls) : calls[i].outcome = "raise"
        fetch_failed    == fallback.runs = 1 /\ ~fallback.fetched
        merge_failed    == /\ winner.some \/ fallback.links # {}
                           /\ determine_content_type(start_url) \notin DOMAIN content_urls
    IN  /\ exit # "raise"
        /\ (pc = "idle" /\ ncrawls > 0 /\ (strategy_raised \/ fetch_failed \/ merge_failed)) =>
              (exit = "return" /\ DOMAIN result \subseteq ContentType)

\* a crawl is over in which a strategy raised and the merge of a non-empty
\* result failed on its key
C12_Witness ==
    /\ pc = "idle"
    /\ \E i \in 1..Len(calls) : calls[i].outcome = "raise"
    /\ winner.some
    /\ determine_content_type(start_url) \notin DOMAIN content_urls

\* C13: crawl ends by raising exactly when the seed URL is not a URL, and then
\* no strategy was awaited; with every other seed it returns.
C13_RaisesIffSeedInvalid ==
    (pc = "idle" /\ ncrawls > 0) =>
        /\ exit = (IF urlparse_raises(start_url) THEN "raise" ELSE "return")
        /\ urlparse_raises(start_url) => calls = <<>>

\* C14: no key of a mapping crawl returned has an empty list of URLs.
C14_ResultHasNoEmptyBucket ==
    \A ct \in DOMAIN result : result[ct] # {}

\* crawl returned a bucket while another bucket of the crawler was empty
C14_Witness ==
    /\ pc = "idle"
    /\ DOMAIN result # {}
    /\ \E ct \in DOMAIN content_urls : content_urls[ct] = {}

\* C15: one crawl on a new crawler: the URLs of the mapping it returns are the
\* set one strategy call returned, with the fallback not run; or the links of
\* the fallback, with no strategy call having returned a URL; or there is none.
C15_ResultFromOneStep ==
    (pc = "idle" /\ ncrawls = 1 /\ exit = "return") =>
        LET found == UNION {result[ct] : ct \in DOMAIN result}
        IN  \/ found = {}
            \/ /\ fallback.runs = 0
               /\ \E i \in 1..Len(calls) : found = calls[i].urls
            \/ /\ found = fallback.links
               /\ \A i \in 1..Len(calls) : calls[i].urls = {}

\* crawl returned the URLs of a strategy that was not the first of its chain
C15_Witness ==
    /\ pc = "idle"
    /\ DOMAIN result # {}
    /\ fallback.runs = 0
    /\ Len(calls) >= 2

\* C16: when a crawl call is over, every browser launched during it is closed,
\* and the crawler holds no driver.
C16_BrowsersClosedAfterCrawl ==
    pc = "idle" => (driver = "None" /\ engines.open = {})

\* a crawl is over in which the crawler's driver and a strategy's own browser
\* were launched, and a strategy raised
C16_Witness ==
    /\ pc = "idle"
    /\ {"selenium", "undetected"} \subseteq engines.launched
    /\ \E r \in classified : r.type \notin ContentType

\* C17: what _crawl_with_requests returns is the set of the hrefs of the page
\* that match a content pattern of the config, each joined to the seed URL.
C17_RequestsReturnsAbsoluteMatches ==
    (/\ pc \in {"loop", "fallback"}
     /\ calls # <<>>
     /\ calls[Len(calls)].name = "crawl_with_requests") =>
        calls[Len(calls)].urls =
            {urljoin(start_url, evals[k].url) :
                k \in {j \in 1..Len(evals) :
                         \E p \in 1..Len(config.content_patterns) :
                            re_search(config.content_patterns[p], evals[j].url)}}

\* C18: a crawl that is in its strategy chain leaves the chain in the end: no
\* strategy keeps it waiting for ever.
C18_ChainIsLeftInTheEnd ==
    (pc = "loop") ~> (pc \in {"fallback", "return", "idle"})

\* C19: a scrape call of BlogScraper or of PDFScraper does not raise; when its
\* GET raised, or every conversion of what it fetched raised, it returns the
\* empty list.
C19_ScrapeReturnsEmptyOnError ==
    scrape.state = "done" =>
        LET fetched == IF scrape.scraper = "BlogScraper" THEN TRUE
                       ELSE StartsWithAt(Lower(scrape.url), "http", 1)
            failed  == \/ fetched /\ scrape.get = "error"
                       \/ /\ scrape.scraper = "BlogScraper"
                          /\ \A i \in 1..3 : scrape.ways[i] = "error"
                       \/ /\ scrape.scraper = "PDFScraper"
                          /\ scrape.read = "error"
        IN  /\ ~scrape.raised
            /\ failed => scrape.items = <<>>

C21_FeedStopsAtFirstYield ==
    feed.state # "None" =>
        \A k \in 1..Len(feed.tried) : feed.tried[k].urls # {} => k = Len(feed.tried)

\* C22: infinite scroll halts when two consecutive height measurements are equal
\* or when the attempt count reaches max_scroll_attempts, whichever comes first:
\* the scrolls performed never exceed max_scroll_attempts, no scroll is performed
\* after a measurement equal to the previous one, and the loop is left only for
\* one of the two reasons
C22_InfiniteScrollHalts ==
    scroll.state # "None" /\ scroll.routine \in InfiniteScrolls =>
        LET max == routine_config(scroll.site_config).max_scroll_attempts
        IN  /\ scroll.scrolls <= max
            /\ scroll.attempts <= max
            /\ scroll.late = 0
            /\ scroll.state = "return" => scroll.broke \/ scroll.attempts = max

\* an infinite scroll that stopped at an unchanged height after several scrolls
C22_Witness ==
    /\ scroll.state = "return"
    /\ scroll.routine \in InfiniteScrolls
    /\ scroll.broke
    /\ scroll.scrolls >= 2
    /\ scroll.scrolls < routine_config(scroll.site_config).max_scroll_attempts

\* C26: the aggressive fallback strategy scrolls the rendered seed page exactly
\* as many times as the resolved config's max_scroll_attempts before it
\* harvests the anchors
C26_AggressiveScrollsToBudget ==
    scroll.state = "return" /\ scroll.routine = "crawl_with_aggressive_selenium" =>
        scroll.scrolls = routine_config(scroll.site_config).max_scroll_attempts

\* C23: templated pagination substitutes the page index into the first
\* pagination template that contains a page placeholder and resolves the result
\* against the base URL, so that the URL holds the index; when no template of
\* the config contains a placeholder it returns no URL, which ends the loop
C23_NextPageFromFirstTemplate ==
    pagination.state # "None" =>
        LET selectors == pagination.pagination_selectors
            holders   == {i \in 1..Len(selectors) : Contains(selectors[i], "{page}")}
        IN  \A k \in 1..Len(pagination.asked) :
               LET call == pagination.asked[k]
               IN  IF holders = {}
                   THEN /\ call.next_page = "None"
                        /\ k = Len(pagination.asked)
                        /\ pagination.state = "return"
                        /\ pagination.requested = <<>>
                   ELSE LET first == CHOOSE i \in holders : \A j \in holders : i <= j
                            at    == Find(selectors[first], "{page}")
                            path  == SubSeq(selectors[first], 1, at - 1) \o Str(call.page)
                                        \o From(selectors[first], at + 6)
                        IN  /\ call.next_page = urljoin(pagination.url, path)
                            /\ Contains(call.next_page, Str(call.page))
                            /\ StartsWithAt(call.next_page,
                                            "https://" \o netloc(pagination.url), 1)

\* page index 2 was substituted into the second selector, the first being no
\* template, and the loop of a config without a template has ended
C23_Witness ==
    /\ pagination.state = "loop"
    /\ Len(pagination.pagination_selectors) = 2
    /\ ~Contains(pagination.pagination_selectors[1], "{page}")
    /\ Len(pagination.asked) >= 2
    /\ pagination.asked[2].page = 2
    /\ pagination.asked[2].next_page = "https://quill.co/blog?page=2"

\* C24: in a pagination loop the synthesized pages are requested in strictly
\* increasing index order, no page with an index greater than or equal to
\* max_pages is ever requested, and the accumulated URL set only grows
C24_PagesAscendBelowLimit ==
    /\ [](pagination.state # "None" =>
            /\ \A k \in 1..Len(pagination.requested) :
                  /\ pagination.requested[k].page < max_pages
                  /\ k > 1 => pagination.requested[k - 1].page < pagination.requested[k].page
            /\ Len(pagination.requested) < max_pages)
    /\ [][pagination.state # "None" =>
            /\ pagination.urls \subseteq pagination'.urls
            /\ pagination'.page >= pagination.page]_vars

\* the loop ran to the page limit and its URL set grew on the way
C24_Witness ==
    /\ pagination.state = "return"
    /\ pagination.page = max_pages
    /\ Len(pagination.requested) = max_pages - 1
    /\ pagination.requested[max_pages - 1].page = max_pages - 1
    /\ pagination.urls = PageLinks

\* C25: a resolved SiteConfig is immutable: no strategy execution changes a
\* field of the config it is given or of the known-site table, so the custom
\* headers read later are those of the table as constructed
C25_SiteConfigsNeverChange ==
    site_configs = InitialSiteConfigs

\* C27: when the config requires script execution and has infinite scroll
\* enabled, the Selenium strategy runs the infinite-scroll routine and then
\* harvests the anchors, so that on a page with matching anchors it returns a
\* non-empty set
C27_SeleniumScrollsThenHarvests ==
    LET cfg == routine_config(selenium.site_config)
    IN  /\ selenium.state = "return"
        /\ cfg.requires_js /\ cfg.infinite_scroll
        /\ selenium.served
        /\ \E i \in 1..Len(selenium.page) :
              selenium.page[i] # "" /\ is_valid_content_url(selenium.page[i], cfg, {})
        => selenium.scrolled /\ selenium.urls # {}

\* C28: within one crawl the shared Selenium driver is closed at most once per
\* acquisition: the quit of _cleanup is never issued on a handle that has been
\* quit already, and no Selenium strategy starts on a handle that has been quit
C28_DriverQuitAtMostOnce ==
    [][/\ (pc = "return" /\ pc' = "idle" /\ driver # "None") => driver = "open"
       /\ (pc = "loop"
             /\ strategies[si] \in {"crawl_with_selenium", "crawl_with_aggressive_selenium"})
          => driver # "quit"]_vars

\* C29: every crawl terminates when each network or browser call returns; among
\* the bounds that make it so, each scroll loop runs at most max_scroll_attempts
\* iterations
C29_ScrollLoopsWithinBudget ==
    scroll.state # "None" =>
        scroll.scrolls <= routine_config(scroll.site_config).max_scroll_attempts

\* C30: in scrape_urls each distinct URL is handed to a scraper at most once,
\* in first-occurrence order and attributed to the first seed that produced it;
\* every seed is itself among the URLs considered, also when its crawl finds
\* nothing; and an exception while scraping one URL does not prevent the
\* remaining URLs from being scraped
C30_EachUrlScrapedOnceInOrder ==
    orchestrator.state # "None" =>
        LET all      == orchestrator.all_urls_to_scrape
            handed   == orchestrator.handed
            first(u) == CHOOSE i \in 1..Len(all) :
                           all[i][1] = u /\ \A m \in 1..(i - 1) : all[m][1] # u
        IN  /\ \A i, j \in 1..Len(handed) :
                  /\ handed[i].found_url = handed[j].found_url => i = j
                  /\ i < j => first(handed[i].found_url) < first(handed[j].found_url)
            /\ \A i \in 1..Len(handed) :
                  /\ \E m \in 1..Len(all) : all[m][1] = handed[i].found_url
                  /\ handed[i].base_url = all[first(handed[i].found_url)][2]
            /\ \A n \in 1..(orchestrator.k - 1) :
                  \E m \in 1..Len(all) : all[m] = <<orchestrator.urls[n], orchestrator.urls[n]>>
            /\ orchestrator.state = "return" =>
                  \A m \in 1..Len(all) :
                     get_scraper_for_url(all[m][1]) # "None" =>
                        \E i \in 1..Len(handed) : handed[i].found_url = all[m][1]

\* a call is over in which two seeds produced the same URL, a crawl found
\* nothing, and a scrape raised before the last one
C30_Witness ==
    /\ orchestrator.state = "return"
    /\ Len(orchestrator.urls) = 2
    /\ Len(orchestrator.handed) >= 2
    /\ orchestrator.handed[1].raised
    /\ Len(orchestrator.all_urls_to_scrape) > Len(orchestrator.unique_urls)
    /\ \E n \in 1..2 :
          /\ ~isfile(orchestrator.urls[n])
          /\ \A m \in 1..Len(orchestrator.all_urls_to_scrape) :
                orchestrator.all_urls_to_scrape[m][2] = orchestrator.urls[n]
                   => orchestrator.all_urls_to_scrape[m][1] = orchestrator.urls[n]

====
